---- MODULE Spec2Model ----
(***************************************************************************)
(* A model of cbassa/twoline: the TLE text codec (TwoLineElement.__init__, *)
(* TwoLineElement.from_parameters, format_ndot, format_bstar_or_nddot,     *)
(* set_checksum), the epoch converter (epoch_to_datetime,                  *)
(* datetime_to_epoch) and the fitting loop (TwoLineElement.propagate with  *)
(* classical_elements).                                                    *)
(*                                                                         *)
(* Text is a sequence of one-character strings.  A Python float is a       *)
(* decimal number held exactly:                                            *)
(*   Dec  [neg, ip, fp, fd]   = (+/-) (ip + fp / 10^fd)                    *)
(*   Sci  [neg, mant, exp10]  = (+/-) mant * 10^exp10                      *)
(*   Frac [n, num, den]       = n + num / den      (a fractional day)      *)
(* The inputs the specifications draw avoid exact rounding ties, where a   *)
(* binary float and the decimal it stands for may round differently.       *)
(***************************************************************************)
EXTENDS Integers, Sequences, FiniteSets, TLC

VARIABLES
    \* ---- TwoLineElement.propagate ----
    tle,        \* self: the input record
    tnew,       \* the target timestamp
    drmin,      \* position tolerance (unit 0.1 km)
    dvmin,      \* velocity tolerance (unit 1e-3 km/s)
    niter,      \* iteration cap
    epochyr,    \* local: target epoch year
    epochdoy,   \* local: target epoch day of year
    e,          \* local: the propagator's last error code
    r0, v0,     \* local: reference state
    rnew, vnew, \* local: working state
    rsgp4, vsgp4, \* local: the candidate propagated at its own epoch
    i,          \* loop counter of "for i in range(niter)"
    newtle,     \* local: the candidate record (Unbound before the first one)
    converged,  \* local: the flag
    pc,         \* position in propagate
    outcome,    \* what the call gave its caller
    \* ---- history of the call, read only by the properties ----
    tleAtCall,  \* the input record as it was when propagate was called
    refState,   \* the state the propagator returned for the reference
    sumdr, sumdv, \* sum of the residuals of the iterations that did not pass
    evals,      \* number of candidate evaluations
    errSeen,    \* a propagator call of this run returned a nonzero code
    \* ---- the codec round trip: from_parameters(p) ----
    params,     \* the arguments of from_parameters
    locals,     \* the locals of from_parameters: the formatted fields and lines
    made,       \* NotMade, a ValueError or the record from_parameters returned
    \* ---- the epoch round trip ----
    stamp,      \* a calendar timestamp
    epoch,      \* NoEpoch or datetime_to_epoch(stamp)
    back        \* NoStamp, "ValueError" or epoch_to_datetime(epoch)

vars == <<tle, tnew, drmin, dvmin, niter, epochyr, epochdoy, e, r0, v0, rnew,
          vnew, rsgp4, vsgp4, i, newtle, converged, pc, outcome, tleAtCall,
          refState, sumdr, sumdv, evals, errSeen, params, locals, made, stamp,
          epoch,
          back>>

fitVars == <<tle, tnew, drmin, dvmin, niter, epochyr, epochdoy, e, r0, v0,
             rnew, vnew, rsgp4, vsgp4, i, newtle, converged, pc, outcome,
             tleAtCall, refState, sumdr, sumdv, evals, errSeen>>

codecVars == <<params, locals, made>>

epochVars == <<stamp, epoch, back>>

-----------------------------------------------------------------------------
(* Text and numbers                                                        *)

\* What int(), float() and datetime() raise.
ValueError == "ValueError"

DigitChars == <<"0", "1", "2", "3", "4", "5", "6", "7", "8", "9">>

\* str.isdigit on one character
IsDigit(c) == \E d \in 1..10 : DigitChars[d] = c

\* int(c) of a digit character
DigitVal(c) == (CHOOSE d \in 1..10 : DigitChars[d] = c) - 1

RECURSIVE Pow10(_)
Pow10(k) == IF k <= 0 THEN 1 ELSE 10 * Pow10(k - 1)

Abs(x) == IF x < 0 THEN -x ELSE x

\* the decimal digits of n >= 0, "%d" % n
RECURSIVE DigitsOf(_)
DigitsOf(n) ==
    IF n < 10 THEN <<DigitChars[n + 1]>>
    ELSE DigitsOf(n \div 10) \o <<DigitChars[(n % 10) + 1]>>

RECURSIVE Repeat(_, _)
Repeat(c, k) == IF k <= 0 THEN <<>> ELSE <<c>> \o Repeat(c, k - 1)

\* a format width pads and never cuts
PadLeft(s, w, c) == Repeat(c, w - Len(s)) \o s

PadRight(s, w) == s \o Repeat(" ", w - Len(s))

\* f"{n:0wd}"
FmtIntZero(n, w) ==
    IF n < 0 THEN <<"-">> \o PadLeft(DigitsOf(-n), w - 1, "0")
    ELSE PadLeft(DigitsOf(n), w, "0")

\* f"{n:wd}"
FmtIntSpace(n, w) ==
    PadLeft((IF n < 0 THEN <<"-">> ELSE <<>>) \o DigitsOf(Abs(n)), w, " ")

\* f"{n:+02d}"
FmtIntSigned(n) ==
    PadLeft(<<IF n < 0 THEN "-" ELSE "+">> \o DigitsOf(Abs(n)), 2, "0")

Dec(neg, ip, fp, fd) == [neg |-> neg, ip |-> ip, fp |-> fp, fd |-> fd]

DecZero == Dec(FALSE, 0, 0, 0)

\* x < 0 on a float: -0.0 is not below zero
DecIsNeg(x) == x.neg /\ (x.ip > 0 \/ x.fp > 0)

\* |x| rounded to prec decimals (round half to even, as the "f" format), as
\* the pair (integer part, fraction numerator)
RoundDec(x, prec) ==
    IF x.fd <= prec THEN <<x.ip, x.fp * Pow10(prec - x.fd)>>
    ELSE LET cut == Pow10(x.fd - prec)
             q == x.fp \div cut
             r == x.fp % cut
             up == (2 * r > cut) \/ (2 * r = cut /\ q % 2 = 1)
             f == IF up THEN q + 1 ELSE q
         IN  IF f = Pow10(prec) THEN <<x.ip + 1, 0>> ELSE <<x.ip, f>>

\* floor(num * 10^k / den) and the remainder, one digit at a time
RECURSIVE LongDiv(_, _, _)
LongDiv(num, den, k) ==
    IF k = 0 THEN <<0, num>>
    ELSE LET p == LongDiv(num, den, k - 1)
         IN  <<10 * p[1] + (10 * p[2]) \div den, (10 * p[2]) % den>>

Frac(n, num, den) == [n |-> n, num |-> num, den |-> den]

\* a fractional day rounded to prec decimals, as (integer part, numerator)
RoundFrac(x, prec) ==
    LET p == LongDiv(x.num, x.den, prec)
        up == (2 * p[2] > x.den) \/ (2 * p[2] = x.den /\ p[1] % 2 = 1)
        f == IF up THEN p[1] + 1 ELSE p[1]
    IN  IF f = Pow10(prec) THEN <<x.n + 1, 0>> ELSE <<x.n, f>>

\* the digits of a rounded value p with prec decimals
FixedDigits(p, prec) ==
    DigitsOf(p[1]) \o
    (IF prec = 0 THEN <<>> ELSE <<".">> \o PadLeft(DigitsOf(p[2]), prec, "0"))

\* f"{x:w.{prec}f}": a minus sign for a negative float, spaces to width w
FmtFixed(x, w, prec) ==
    PadLeft((IF x.neg THEN <<"-">> ELSE <<>>) \o FixedDigits(RoundDec(x, prec), prec),
            w, " ")

\* f"{x:0w.{prec}f}": zeros after the sign to width w
FmtFixedZero(x, w, prec) ==
    IF x.neg THEN <<"-">> \o PadLeft(FixedDigits(RoundDec(x, prec), prec), w - 1, "0")
    ELSE PadLeft(FixedDigits(RoundDec(x, prec), prec), w, "0")

\* x * 10^k for a decimal x, k >= 0
MulPow10(x, k) ==
    IF x.fd >= k
    THEN Dec(x.neg, x.ip * Pow10(k) + x.fp \div Pow10(x.fd - k),
             x.fp % Pow10(x.fd - k), x.fd - k)
    ELSE Dec(x.neg, x.ip * Pow10(k) + x.fp * Pow10(k - x.fd), 0, 0)

RECURSIVE LStrip(_)
LStrip(s) == IF s # <<>> /\ Head(s) = " " THEN LStrip(Tail(s)) ELSE s

\* str.rstrip()
RECURSIVE RStrip(_)
RStrip(s) ==
    IF s # <<>> /\ s[Len(s)] = " " THEN RStrip(SubSeq(s, 1, Len(s) - 1)) ELSE s

\* a Python slice s[a:b] (0-based, b excluded), cut to the text's length
Slice(s, a, b) ==
    SubSeq(s, a + 1, IF b < Len(s) THEN b ELSE Len(s))

\* s[k] (0-based)
CharAt(s, k) == s[k + 1]

AllDigits(s) == \A k \in 1..Len(s) : IsDigit(s[k])

RECURSIVE NatOf(_)
NatOf(s) ==
    IF s = <<>> THEN 0
    ELSE 10 * NatOf(SubSeq(s, 1, Len(s) - 1)) + DigitVal(s[Len(s)])

HasSign(s) == s # <<>> /\ Head(s) \in {"+", "-"}

Unsigned(s) == IF HasSign(s) THEN Tail(s) ELSE s

\* the result of a call that raised
Raised(x) == [ok |-> FALSE, err |-> x]

\* the result of a call that returned v
Returned(v) == [ok |-> TRUE, val |-> v]

\* int(text): blanks around, a sign, digits
ParseInt(text) ==
    LET s == RStrip(LStrip(text))
        u == Unsigned(s)
    IN  IF u = <<>> \/ ~AllDigits(u) THEN Raised(ValueError)
        ELSE Returned(IF Head(s) = "-" THEN -NatOf(u) ELSE NatOf(u))

DotAt(u) ==
    IF \E k \in 1..Len(u) : u[k] = "."
    THEN CHOOSE k \in 1..Len(u) : u[k] = "." /\ \A j \in 1..(k - 1) : u[j] # "."
    ELSE Len(u) + 1

\* float(text): blanks around, a sign, digits with at most one point
ParseFloat(text) ==
    LET s == RStrip(LStrip(text))
        u == Unsigned(s)
        d == DotAt(u)
        ipart == SubSeq(u, 1, d - 1)
        fpart == SubSeq(u, d + 1, Len(u))
    IN  IF (ipart = <<>> /\ fpart = <<>>) \/ ~AllDigits(ipart) \/ ~AllDigits(fpart)
        THEN Raised(ValueError)
        ELSE Returned(Dec(s # <<>> /\ Head(s) = "-", NatOf(ipart), NatOf(fpart),
                          Len(fpart)))

-----------------------------------------------------------------------------
(* Epoch converter                                                         *)

RECURSIVE GCD(_, _)
GCD(a, b) == IF b = 0 THEN a ELSE GCD(b, a % b)

\* k * (num / den) split into its floor and the fraction left over
Scale(k, num, den) ==
    LET g == GCD(k, den)
        t == (k \div g) * num
        d == den \div g
    IN  [int |-> t \div d, num |-> t % d, den |-> d]

\* the float a decimal text stands for, as a fractional day
FracOfDec(x) ==
    IF x.neg /\ x.fp > 0 THEN Frac(-x.ip - 1, Pow10(x.fd) - x.fp, Pow10(x.fd))
    ELSE Frac(IF x.neg THEN -x.ip ELSE x.ip, x.fp, Pow10(x.fd))

Stamp(y, mo, d, h, mi, s, us) ==
    [year |-> y, month |-> mo, day |-> d, hour |-> h, minute |-> mi,
     second |-> s, usecond |-> us]

\* the Gregorian calendar of the datetime type
IsLeap(y) == (y % 4 = 0 /\ y % 100 # 0) \/ y % 400 = 0

DaysInMonth(y, mo) ==
    IF mo = 2 THEN (IF IsLeap(y) THEN 29 ELSE 28)
    ELSE IF mo \in {4, 6, 9, 11} THEN 30 ELSE 31

\* datetime(year, month, day, hour, minute, second, microsecond)
datetime(y, mo, d, h, mi, s, us) ==
    IF /\ y \in 1..9999
       /\ mo \in 1..12
       /\ d >= 1 /\ d <= DaysInMonth(y, mo)
       /\ h \in 0..23 /\ mi \in 0..59 /\ s \in 0..59 /\ us \in 0..999999
    THEN Returned(Stamp(y, mo, d, h, mi, s, us))
    ELSE Raised(ValueError)

\* the "Leap year?" rule both directions share
LeapK(year) == IF (year % 4 = 0) /\ (year % 400 # 0) THEN 1 ELSE 2

epoch_to_datetime(yr, doy) ==
    LET year == IF yr < 57 THEN yr + 2000 ELSE yr + 1900
        k == LeapK(year)
        n == doy.n
        \* math.floor(9 * (k + n) / 275 + 0.98)
        month == IF n < 32 THEN 1 ELSE (900 * (k + n) + 26950) \div 27500
        day == n - ((275 * month) \div 9) + k * ((month + 9) \div 12) + 30
        hh == Scale(24, doy.num, doy.den)
        mm == Scale(60, hh.num, hh.den)
        ss == Scale(60, mm.num, mm.den)
        uu == Scale(1000000, ss.num, ss.den)
    IN  datetime(year, month, day, hh.int, mm.int, ss.int, uu.int)

\* (epochyr, epochdoy) of a timestamp of whole seconds
datetime_to_epoch(t) ==
    LET k == LeapK(t.year)
        n == ((275 * t.month) \div 9) - k * ((t.month + 9) \div 12) + t.day - 30
        fday == t.hour * 3600 + t.minute * 60 + t.second
        yr == IF t.year < 2000 THEN t.year - 1900 ELSE t.year - 2000
    IN  <<yr, Frac(n, fday, 86400)>>

-----------------------------------------------------------------------------
(* TLE codec                                                               *)

Sci(neg, mant, exp10) == [neg |-> neg, mant |-> mant, exp10 |-> exp10]

\* one float has one value: trailing zeros of the mantissa go to the exponent
RECURSIVE SciNorm(_)
SciNorm(x) ==
    IF x.mant = 0 THEN Sci(FALSE, 0, 0)
    ELSE IF x.mant % 10 = 0 THEN SciNorm(Sci(x.neg, x.mant \div 10, x.exp10 + 1))
    ELSE x

RECURSIVE NumDigits(_)
NumDigits(n) == IF n < 10 THEN 1 ELSE 1 + NumDigits(n \div 10)

\* the powers of ten 10^L at which math.log(x) / math.log(10) is exactly L in
\* IEEE double arithmetic; at the others from 1e-12 to 1e4 it falls short of L
\* in magnitude, and int() cuts it to the next integer towards zero
ExactLogPowers == {-11, -10, -8, -7, -5, 0, 1, 2, 4}

\* int(math.log(math.fabs(x)) / math.log(10)), x # 0
TruncLog10(x) ==
    LET k == NumDigits(x.mant)
        L == k - 1 + x.exp10
    IN  IF x.mant = Pow10(k - 1)
        THEN (IF L \in ExactLogPowers THEN L ELSE IF L < 0 THEN L + 1 ELSE L - 1)
        ELSE (IF L < 0 THEN L + 1 ELSE L)

format_ndot(x) ==
    LET sign == IF DecIsNeg(x) THEN "-" ELSE " "
        value == FmtFixed(Dec(FALSE, x.ip, x.fp, x.fd), 10, 8)
    IN  <<sign>> \o PadRight(Tail(value), 9)

format_bstar_or_nddot(x) ==
    IF x.mant = 0 THEN <<" ", "0", "0", "0", "0", "0", "-", "0">>
    ELSE LET fexp == TruncLog10(x)
             s == x.exp10 - fexp + 5
             fvalue == IF s >= 0 THEN Dec(FALSE, x.mant * Pow10(s), 0, 0)
                       ELSE Dec(FALSE, x.mant \div Pow10(-s), x.mant % Pow10(-s), -s)
             sign == IF x.neg THEN "-" ELSE " "
         IN  <<sign>> \o FmtFixedZero(fvalue, 5, 0) \o FmtIntSigned(fexp)

\* what one character adds to the checksum
CheckValue(c) ==
    (IF IsDigit(c) THEN DigitVal(c) ELSE 0) + (IF c = "-" THEN 1 ELSE 0)

\* the sum over s[lo..hi], by halves
RECURSIVE CheckSum(_, _, _)
CheckSum(s, lo, hi) ==
    IF lo > hi THEN 0
    ELSE IF lo = hi THEN CheckValue(s[lo])
    ELSE LET mid == (lo + hi) \div 2
         IN  CheckSum(s, lo, mid) + CheckSum(s, mid + 1, hi)

set_checksum(line) ==
    LET body == SubSeq(line, 1, Len(line) - 1)
    IN  body \o DigitsOf(CheckSum(body, 1, Len(body)) % 10)

\* the float decoded from a compressed drag field: sign, ".", digits, exponent
DragValue(signch, digits, expo) ==
    LET fvalue == ParseFloat(<<signch>> \o <<".">> \o digits)
        fexp == ParseInt(expo)
    IN  IF fvalue.ok /\ fexp.ok
        THEN Returned(SciNorm(Sci(fvalue.val.neg,
                                  fvalue.val.ip * Pow10(fvalue.val.fd) + fvalue.val.fp,
                                  fexp.val - fvalue.val.fd)))
        ELSE Raised(ValueError)

RECURSIVE BlanksToZeros(_)
BlanksToZeros(s) ==
    IF s = <<>> THEN <<>>
    ELSE <<IF Head(s) = " " THEN "0" ELSE Head(s)>> \o BlanksToZeros(Tail(s))

\* TwoLineElement.__init__(line0, line1, line2)
TwoLineElement(line0, line1, line2) ==
    LET l0 == RStrip(line0)
        satno == ParseInt(Slice(line1, 2, 7))
        yr == ParseInt(Slice(line1, 18, 20))
        doy == ParseFloat(Slice(line1, 20, 32))
        ndot == ParseFloat(Slice(line1, 33, 43))
        nddot == DragValue(CharAt(line1, 44), Slice(line1, 45, 50), Slice(line1, 50, 52))
        bstar == DragValue(CharAt(line1, 53), Slice(line1, 54, 59), Slice(line1, 59, 61))
        ephtype == ParseInt(<<CharAt(line1, 62)>>)
        elnum == ParseInt(Slice(line1, 64, 68))
        satno2 == ParseInt(Slice(line2, 2, 7))
        incl == ParseFloat(Slice(line2, 8, 16))
        node == ParseFloat(Slice(line2, 17, 25))
        ecc == ParseFloat(<<"0", ".">> \o BlanksToZeros(Slice(line2, 26, 33)))
        argp == ParseFloat(Slice(line2, 34, 42))
        m == ParseFloat(Slice(line2, 43, 51))
        n == ParseFloat(Slice(line2, 52, 63))
        revnum == ParseInt(Slice(line2, 63, 68))
        parsed == /\ satno.ok /\ yr.ok /\ doy.ok /\ ndot.ok /\ nddot.ok
                  /\ bstar.ok /\ ephtype.ok /\ elnum.ok /\ satno2.ok
                  /\ incl.ok /\ node.ok /\ ecc.ok /\ argp.ok /\ m.ok /\ n.ok
                  /\ revnum.ok
    IN  IF ~parsed THEN Raised(ValueError)
        ELSE LET ep == epoch_to_datetime(yr.val, FracOfDec(doy.val))
             IN  IF ~ep.ok THEN Raised(ValueError)
                 ELSE [ok |-> TRUE,
                       line0 |-> l0,
                       line1 |-> RStrip(line1),
                       line2 |-> RStrip(line2),
                       name |-> IF Slice(l0, 0, 2) = <<"0", " ">>
                                THEN Slice(l0, 2, Len(l0)) ELSE l0,
                       satno |-> satno.val,
                       classification |-> CharAt(line1, 7),
                       desig |-> RStrip(Slice(line1, 9, 17)),
                       desig_year |-> Slice(line1, 9, 11),
                       desig_id |-> RStrip(Slice(line1, 11, 17)),
                       epochyr |-> yr.val,
                       epochdoy |-> FracOfDec(doy.val),
                       ndot |-> ndot.val,
                       nddot |-> nddot.val,
                       bstar |-> bstar.val,
                       ephtype |-> ephtype.val,
                       elnum |-> elnum.val,
                       incl |-> incl.val,
                       node |-> node.val,
                       ecc |-> ecc.val,
                       argp |-> argp.val,
                       m |-> m.val,
                       n |-> n.val,
                       revnum |-> revnum.val,
                       epoch |-> ep.val]

\* the arguments of from_parameters and of format_tle
Params(satno, yr, doy, incl, node, ecc, argp, m, n, bstar, name, desig, classification, ndot, nddot, ephtype, elnum, revnum) ==
    [satno |-> satno, epochyr |-> yr, epochdoy |-> doy, incl |-> incl,
     node |-> node, ecc |-> ecc, argp |-> argp, m |-> m, n |-> n,
     bstar |-> bstar, name |-> name, desig |-> desig,
     classification |-> classification, ndot |-> ndot, nddot |-> nddot,
     ephtype |-> ephtype, elnum |-> elnum, revnum |-> revnum]

\* f"{epochdoy:012.8f}"
FmtEpochDoy(doy) == PadLeft(FixedDigits(RoundFrac(doy, 8), 8), 12, "0")

\* the "Format lines" block of from_parameters
FormatLine0(p) == p.name

FormatLine1(p) ==
    set_checksum(<<"1", " ">> \o FmtIntZero(p.satno, 5) \o <<p.classification>>
        \o <<" ">> \o PadRight(p.desig, 8) \o <<" ">>
        \o FmtIntZero(p.epochyr, 2) \o FmtEpochDoy(p.epochdoy) \o <<" ">>
        \o PadRight(format_ndot(p.ndot), 10) \o <<" ">>
        \o PadRight(format_bstar_or_nddot(p.nddot), 8) \o <<" ">>
        \o PadRight(format_bstar_or_nddot(p.bstar), 8) \o <<" ">>
        \o FmtIntSpace(p.ephtype, 1) \o <<" ">> \o FmtIntSpace(p.elnum, 4)
        \o <<"0">>)

FormatLine2(p) ==
    set_checksum(<<"2", " ">> \o FmtIntZero(p.satno, 5) \o <<" ">>
        \o FmtFixed(p.incl, 8, 4) \o <<" ">> \o FmtFixed(p.node, 8, 4) \o <<" ">>
        \o FmtFixedZero(MulPow10(p.ecc, 7), 7, 0)
        \o <<" ">> \o FmtFixed(p.argp, 8, 4) \o <<" ">> \o FmtFixed(p.m, 8, 4)
        \o <<" ">> \o FmtFixed(p.n, 11, 8) \o FmtIntSpace(p.revnum, 5) \o <<"0">>)

\* TwoLineElement.from_parameters
from_parameters(p) ==
    IF ~epoch_to_datetime(p.epochyr, p.epochdoy).ok THEN Raised(ValueError)
    ELSE TwoLineElement(FormatLine0(p), FormatLine1(p), FormatLine2(p))

\* format_tle, which classical_elements and TwoLineElement.format call with
\* the arguments of from_parameters and whose result is three lines
format_tle(p) == <<FormatLine0(p), FormatLine1(p), FormatLine2(p)>>

-----------------------------------------------------------------------------
(* Fitting loop: TwoLineElement.propagate                                  *)

\* the bound of the model on the iteration cap niter
MaxIter == 2

\* the VANGUARD 3 lines of test.py
VanguardLines ==
    <<
        <<"0", " ", "V", "A", "N", "G", "U", "A", "R", "D", " ", "3">>,
        <<"1", " ", "0", "0", "0", "2", "0", "U", " ", "5", "9", "0", "0",
          "7", "A", " ", " ", " ", "2", "0", "0", "5", "2", ".", "8", "8",
          "2", "8", "1", "6", "4", "4", " ", "-", ".", "0", "0", "0", "0",
          "0", "0", "2", "5", " ", "+", "0", "0", "0", "0", "0", "-", "0",
          " ", "-", "8", "3", "4", "1", "6", "-", "5", " ", "0", " ", " ",
          "9", "9", "9", "9">>,
        <<"2", " ", "0", "0", "0", "2", "0", " ", "0", "3", "3", ".", "3",
          "4", "1", "8", " ", "2", "3", "7", ".", "3", "2", "3", "6", " ",
          "1", "6", "6", "6", "8", "7", "4", " ", "0", "0", "8", ".", "3",
          "4", "4", "2", " ", "3", "5", "4", ".", "1", "6", "0", "1", " ",
          "1", "1", ".", "5", "5", "6", "8", "2", "3", "3", "6", "2", "1",
          "7", "1", "1", "3">>
    >>

\* the ISS lines
IssLines ==
    <<
        <<"I", "S", "S", " ", "(", "Z", "A", "R", "Y", "A", ")">>,
        <<"1", " ", "2", "5", "5", "4", "4", "U", " ", "9", "8", "0", "6",
          "7", "A", " ", " ", " ", "2", "0", "0", "5", "3", ".", "2", "4",
          "0", "9", "3", "3", "1", "9", " ", " ", ".", "0", "0", "0", "0",
          "1", "8", "4", "7", " ", " ", "0", "0", "0", "0", "0", "-", "0",
          " ", " ", "4", "1", "4", "2", "7", "-", "4", " ", "0", " ", " ",
          "9", "9", "9", "3">>,
        <<"2", " ", "2", "5", "5", "4", "4", " ", " ", "5", "1", ".", "6",
          "4", "2", "9", " ", "2", "0", "2", ".", "1", "5", "7", "1", " ",
          "0", "0", "0", "4", "8", "5", "2", " ", "3", "0", "3", ".", "4",
          "0", "8", "3", " ", "1", "2", "1", ".", "5", "1", "0", "5", " ",
          "1", "5", ".", "4", "9", "1", "9", "0", "8", "5", "1", "2", "1",
          "4", "0", "4", "6">>
    >>

\* line 1 of the ISS with a B* of 1.0e-5
RoundBstarLine1 ==
    <<"1", " ", "2", "5", "5", "4", "4", "U", " ", "9", "8", "0", "6", "7",
      "A", " ", " ", " ", "2", "0", "0", "5", "3", ".", "2", "4", "0", "9",
      "3", "3", "1", "9", " ", " ", ".", "0", "0", "0", "0", "1", "8", "4",
      "7", " ", " ", "0", "0", "0", "0", "0", "-", "0", " ", " ", "1", "0",
      "0", "0", "0", "-", "4", " ", "0", " ", " ", "9", "9", "9", "6">>

\* the records propagate is called on
InputTLEs ==
    {TwoLineElement(VanguardLines[1], VanguardLines[2], VanguardLines[3]),
     TwoLineElement(IssLines[1], IssLines[2], IssLines[3]),
     TwoLineElement(IssLines[1], RoundBstarLine1, IssLines[3])}

\* the target timestamps tnew
Targets ==
    {Stamp(2020, 2, 23, 1, 2, 4, 0), Stamp(1999, 12, 31, 23, 59, 59, 0),
     Stamp(2100, 1, 1, 0, 0, 0, 0)}

\* the tolerances drmin (unit 0.1 km) and dvmin (unit 1e-3 km/s) of the
\* calls; 1 is the default of each
DrTolerances == {1, 2}

DvTolerances == {1}

Unbound == Raised("Unbound")

VAdd(a, b) == <<a[1] + b[1], a[2] + b[2], a[3] + b[3]>>

VSub(a, b) == <<a[1] - b[1], a[2] - b[2], a[3] - b[3]>>

Dot(a, b) == a[1] * b[1] + a[2] * b[2] + a[3] * b[3]

\* np.abs(np.linalg.norm(d)) < tol
NormBelow(d, tol) == tol > 0 /\ Dot(d, d) < tol * tol

ZeroVec == <<0, 0, 0>>

\* what sat.sgp4 may return: an error code, a position and a velocity
Sgp4Out ==
    [e : {0, 1},
     r : {<<0, 0, 0>>, <<1, 0, 0>>, <<0, 2, 0>>},
     v : {<<0, 0, 0>>, <<0, 0, 1>>}]

\* the elements (degrees, rev/day) the arithmetic of classical_elements gives
\* for a working state: those of a low orbit, and those of the state
\* r = (7000, 0, 0) km, v = (0, 8.950056596965384, 5.812234713616792) km/s,
\* a step short of parabolic (ecc = 0.99999997, n = 7.7e-11)
KeplerElements ==
    {[incl |-> Dec(FALSE, 51, 64294, 5), node |-> Dec(FALSE, 202, 15706, 5),
      ecc |-> Dec(FALSE, 0, 48523, 8), argp |-> Dec(FALSE, 303, 40826, 5),
      m |-> Dec(FALSE, 121, 51049, 5), n |-> Dec(FALSE, 15, 491908514, 9)],
     [incl |-> Dec(FALSE, 33, 0, 0), node |-> Dec(FALSE, 0, 0, 0),
      ecc |-> Dec(FALSE, 0, 99999997, 8), argp |-> Dec(FALSE, 0, 0, 0),
      m |-> Dec(FALSE, 0, 0, 0), n |-> Dec(FALSE, 0, 77, 12)]}

\* classical_elements stamping the candidate with the template's own epoch
MutClassicalElementsOwnEpoch(el, yr, doy, t) ==
    LET l == format_tle(Params(t.satno, t.epochyr, t.epochdoy, el.incl, el.node,
                               el.ecc, el.argp, el.m, el.n, t.bstar, t.name,
                               t.desig, t.classification, t.ndot, t.nddot,
                               t.ephtype, t.elnum, t.revnum))
    IN  TwoLineElement(l[1], l[2], l[3])

\* the record built from the elements el of the working state, the target
\* epoch and the template's other fields
classical_elements(el, yr, doy, t) ==
    LET l == format_tle(Params(t.satno, yr, doy, el.incl, el.node, el.ecc,
                               el.argp, el.m, el.n, t.bstar, t.name, t.desig,
                               t.classification, t.ndot, t.nddot, t.ephtype,
                               t.elnum, t.revnum))
    IN  TwoLineElement(l[1], l[2], l[3])

\* the update with the sign of the correction slipped
MutUpdateSubtract(w, d) == VSub(w, d)

\* the working state after an iteration that did not pass
UpdateState(w, d) == VAdd(w, d)

\* the exit check leaving on either tolerance
MutExitCheckEither(dr, dv) == NormBelow(dr, drmin) \/ NormBelow(dv, dvmin)

\* the exit check
ExitCheck(dr, dv) == NormBelow(dr, drmin) /\ NormBelow(dv, dvmin)

NoResult == [kind |-> "none"]

FitIdle ==
    /\ tle = Unbound /\ tnew = Stamp(1, 1, 1, 0, 0, 0, 0)
    /\ drmin = 0 /\ dvmin = 0 /\ niter = 0
    /\ epochyr = 0 /\ epochdoy = Frac(0, 0, 1) /\ e = 0
    /\ r0 = ZeroVec /\ v0 = ZeroVec /\ rnew = ZeroVec /\ vnew = ZeroVec
    /\ rsgp4 = ZeroVec /\ vsgp4 = ZeroVec
    /\ i = 0 /\ newtle = Unbound /\ converged = FALSE /\ pc = "idle"
    /\ outcome = NoResult /\ tleAtCall = Unbound /\ refState = <<ZeroVec, ZeroVec>>
    /\ sumdr = ZeroVec /\ sumdv = ZeroVec /\ evals = 0 /\ errSeen = FALSE

NotMade == Raised("NotMade")

NoLocals == [set |-> FALSE]

CodecIdle == params = Unbound /\ locals = NoLocals /\ made = NotMade

NoEpoch == Raised("NoEpoch")

NoStamp == Raised("NoStamp")

EpochIdle == stamp = Stamp(1, 1, 1, 0, 0, 0, 0) /\ epoch = NoEpoch /\ back = NoStamp

\* propagate(self, tnew, drmin, dvmin, niter) is called
FitInit ==
    /\ tle \in InputTLEs
    /\ tnew \in Targets
    /\ drmin \in DrTolerances
    /\ dvmin \in DvTolerances
    /\ niter \in 0..MaxIter
    /\ epochyr = 0 /\ epochdoy = Frac(0, 0, 1) /\ e = 0
    /\ r0 = ZeroVec /\ v0 = ZeroVec /\ rnew = ZeroVec /\ vnew = ZeroVec
    /\ rsgp4 = ZeroVec /\ vsgp4 = ZeroVec
    /\ i = 0 /\ newtle = Unbound /\ converged = FALSE /\ pc = "call"
    /\ outcome = NoResult /\ tleAtCall = tle /\ refState = <<ZeroVec, ZeroVec>>
    /\ sumdr = ZeroVec /\ sumdv = ZeroVec /\ evals = 0 /\ errSeen = FALSE
    /\ CodecIdle /\ EpochIdle

\* "New epoch"
NewEpoch ==
    /\ pc = "call"
    /\ epochyr' = datetime_to_epoch(tnew)[1]
    /\ epochdoy' = datetime_to_epoch(tnew)[2]
    /\ pc' = "ref"
    /\ UNCHANGED <<tle, tnew, drmin, dvmin, niter, e, r0, v0, rnew, vnew, rsgp4,
                   vsgp4, i, newtle, converged, outcome, tleAtCall, refState,
                   sumdr, sumdv, evals, errSeen, codecVars, epochVars>>

\* "Compute reference state vector" and "Start loop"
ReferenceState ==
    /\ pc = "ref"
    /\ \E out \in Sgp4Out :
          /\ e' = out.e
          /\ r0' = out.r /\ v0' = out.v
          /\ rnew' = out.r /\ vnew' = out.v
          /\ refState' = <<out.r, out.v>>
          /\ errSeen' = (errSeen \/ out.e # 0)
    /\ converged' = FALSE
    /\ i' = 0
    /\ pc' = "loop"
    /\ UNCHANGED <<tle, tnew, drmin, dvmin, niter, epochyr, epochdoy, rsgp4,
                   vsgp4, newtle, outcome, tleAtCall, sumdr, sumdv, evals,
                   codecVars, epochVars>>

\* "Convert state vector into new TLE"; a ValueError of the constructor ends
\* the call
Candidate ==
    /\ pc = "loop" /\ i < niter
    /\ \E el \in KeplerElements :
          LET c == classical_elements(el, epochyr, epochdoy, tle)
          IN  IF c.ok
              THEN /\ newtle' = c /\ pc' = "sgp4" /\ outcome' = outcome
              ELSE /\ newtle' = newtle /\ pc' = "done"
                   /\ outcome' = [kind |-> "ValueError"]
    /\ UNCHANGED <<tle, tnew, drmin, dvmin, niter, epochyr, epochdoy, e, r0, v0,
                   rnew, vnew, rsgp4, vsgp4, i, converged, tleAtCall, refState,
                   sumdr, sumdv, evals, errSeen, codecVars, epochVars>>

\* "Propagate with SGP4", "Vector difference and magnitudes", "Exit check",
\* "Update state vector"
Evaluate ==
    /\ pc = "sgp4"
    /\ \E out \in Sgp4Out :
          LET dr == VSub(r0, out.r)
              dv == VSub(v0, out.v)
          IN  /\ e' = out.e
              /\ rsgp4' = out.r /\ vsgp4' = out.v
              /\ errSeen' = (errSeen \/ out.e # 0)
              /\ evals' = evals + 1
              /\ IF ExitCheck(dr, dv)
                 THEN /\ converged' = TRUE
                      /\ pc' = "return"
                      /\ UNCHANGED <<rnew, vnew, i, sumdr, sumdv>>
                 ELSE /\ rnew' = UpdateState(rnew, dr)
                      /\ vnew' = UpdateState(vnew, dv)
                      /\ sumdr' = VAdd(sumdr, VSub(refState[1], out.r))
                      /\ sumdv' = VAdd(sumdv, VSub(refState[2], out.v))
                      /\ i' = i + 1
                      /\ pc' = "loop"
                      /\ UNCHANGED converged
    /\ UNCHANGED <<tle, tnew, drmin, dvmin, niter, epochyr, epochdoy, r0, v0,
                   newtle, outcome, tleAtCall, refState, codecVars, epochVars>>

\* range(niter) is used up
LoopExit ==
    /\ pc = "loop" /\ i >= niter
    /\ pc' = "return"
    /\ UNCHANGED <<tle, tnew, drmin, dvmin, niter, epochyr, epochdoy, e, r0, v0,
                   rnew, vnew, rsgp4, vsgp4, i, newtle, converged, outcome,
                   tleAtCall, refState, sumdr, sumdv, evals, errSeen, codecVars,
                   epochVars>>

\* "return newtle, converged": newtle is unbound when the loop body never ran
Return ==
    /\ pc = "return"
    /\ outcome' = IF ~newtle.ok THEN [kind |-> "UnboundLocalError"]
                  ELSE [kind |-> "returned", tle |-> newtle, converged |-> converged]
    /\ pc' = "done"
    /\ UNCHANGED <<tle, tnew, drmin, dvmin, niter, epochyr, epochdoy, e, r0, v0,
                   rnew, vnew, rsgp4, vsgp4, i, newtle, converged, tleAtCall,
                   refState, sumdr, sumdv, evals, errSeen, codecVars, epochVars>>

FitNext == NewEpoch \/ ReferenceState \/ Candidate \/ Evaluate \/ LoopExit \/ Return

Spec == FitInit /\ [][FitNext]_vars

-----------------------------------------------------------------------------
(* Codec round trip: TwoLineElement.from_parameters on drawn arguments     *)

IssName == IssLines[1]

Eccs ==
    {Dec(FALSE, 0, 0, 0), Dec(FALSE, 0, 4852, 7), Dec(FALSE, 0, 12345678, 8),
     Dec(FALSE, 0, 99999996, 8)}

Drags ==
    {Sci(FALSE, 0, 0), Sci(FALSE, 41427, -9), Sci(TRUE, 83416, -10),
     Sci(FALSE, 5, -5), Sci(FALSE, 9999996, -11), Sci(FALSE, 1, -5),
     Sci(FALSE, 1, -4), Sci(FALSE, 1, -8), Sci(FALSE, 1, -2),
     Sci(TRUE, 1234567, -9), Sci(FALSE, 15, -1), Sci(FALSE, 1234, -14)}

Nddots == {Sci(FALSE, 0, 0), Sci(FALSE, 12345, -10), Sci(TRUE, 1, -7)}

Ndots ==
    {Dec(FALSE, 0, 0, 0), Dec(TRUE, 0, 25, 8), Dec(FALSE, 0, 1847, 8),
     Dec(TRUE, 0, 123456784, 9), Dec(FALSE, 1, 5, 1), Dec(TRUE, 12, 5, 1)}

MeanMotions ==
    {Dec(FALSE, 15, 49190851, 8), Dec(FALSE, 0, 14, 9), Dec(FALSE, 99, 999999994, 9),
     Dec(FALSE, 100, 5, 1)}

Inclinations == {Dec(FALSE, 0, 0, 0), Dec(FALSE, 51, 6429, 4), Dec(FALSE, 180, 0, 0)}

Nodes == {Dec(FALSE, 0, 0, 0), Dec(FALSE, 202, 15706, 5), Dec(FALSE, 359, 99996, 5)}

EpochDays ==
    {Frac(1, 0, 1), Frac(53, 24093319, 100000000), Frac(366, 999999996, 1000000000)}

\* the ISS record with some arguments replaced
IssWith(satno, yr, doy, incl, node, ecc, n, bstar, ndot, nddot, elnum, revnum) ==
    Params(satno, yr, doy, incl, node, ecc, Dec(FALSE, 303, 4083, 4),
           Dec(FALSE, 121, 5105, 4), n, bstar, IssName,
           <<"9", "8", "0", "6", "7", "A">>, "U", ndot, nddot, 0, elnum, revnum)

ParamSet ==
    {IssWith(25544, 20, Frac(53, 24093319, 100000000), Dec(FALSE, 51, 6429, 4),
             Dec(FALSE, 202, 1571, 4), ecc, Dec(FALSE, 15, 49190851, 8), bstar,
             ndot, nddot, 999, 21404) :
        ecc \in Eccs, bstar \in Drags, ndot \in Ndots, nddot \in Nddots}
    \cup
    {IssWith(satno, yr, doy, incl, node, Dec(FALSE, 0, 4852, 7), n,
             Sci(FALSE, 41427, -9), Dec(FALSE, 0, 1847, 8), Sci(FALSE, 0, 0),
             elnum, revnum) :
        satno \in {0, 99999}, yr \in {0, 99}, doy \in EpochDays,
        incl \in Inclinations, node \in Nodes, n \in MeanMotions,
        elnum \in {0, 9999}, revnum \in {0, 99999}}

CodecInit ==
    /\ params \in ParamSet
    /\ locals = NoLocals
    /\ made = NotMade
    /\ FitIdle /\ EpochIdle

\* TwoLineElement.from_parameters(params): the epoch, the formatted terms,
\* the lines, the constructor
FromParameters ==
    /\ made = NotMade
    /\ locals' = IF epoch_to_datetime(params.epochyr, params.epochdoy).ok
                 THEN [set |-> TRUE,
                       ndotstr |-> format_ndot(params.ndot),
                       nddotstr |-> format_bstar_or_nddot(params.nddot),
                       bstarstr |-> format_bstar_or_nddot(params.bstar),
                       line0 |-> FormatLine0(params),
                       line1 |-> FormatLine1(params),
                       line2 |-> FormatLine2(params)]
                 ELSE locals
    /\ made' = from_parameters(params)
    /\ UNCHANGED <<params, fitVars, epochVars>>

CodecNext == FromParameters

SpecCodec == CodecInit /\ [][CodecNext]_vars

-----------------------------------------------------------------------------
(* Epoch round trip: epoch_to_datetime(datetime_to_epoch(t))               *)

EpochYears == {1957, 1996, 2000, 2020, 2055}

TimesOfDay == {<<0, 0, 0>>, <<1, 2, 4>>, <<23, 59, 59>>}

\* valid calendar timestamps of whole seconds
Stamps ==
    {Stamp(y, mo, d, t[1], t[2], t[3], 0) :
        y \in EpochYears, mo \in 1..12, d \in 1..31, t \in TimesOfDay}

EpochInit ==
    /\ stamp \in {t \in Stamps : t.day <= DaysInMonth(t.year, t.month)}
    /\ epoch = NoEpoch
    /\ back = NoStamp
    /\ FitIdle /\ CodecIdle

ToEpoch ==
    /\ ~epoch.ok
    /\ epoch' = Returned(datetime_to_epoch(stamp))
    /\ UNCHANGED <<stamp, back, fitVars, codecVars>>

ToDatetime ==
    /\ epoch.ok /\ back = NoStamp
    /\ back' = epoch_to_datetime(epoch.val[1], epoch.val[2])
    /\ UNCHANGED <<stamp, epoch, fitVars, codecVars>>

EpochNext == ToEpoch \/ ToDatetime

SpecEpoch == EpochInit /\ [][EpochNext]_vars

-----------------------------------------------------------------------------
(* Properties                                                              *)

VanguardName == <<"V", "A", "N", "G", "U", "A", "R", "D", " ", "3">>

VanguardTarget == Stamp(2020, 2, 23, 1, 2, 4, 0)

\* the residual of the candidate last evaluated, against the reference the
\* propagator returned
ResidualPasses ==
    /\ NormBelow(VSub(refState[1], rsgp4), drmin)
    /\ NormBelow(VSub(refState[2], vsgp4), dvmin)

\* C1: for every cap niter >= 0 the call ends Converged or Exhausted after at
\* most niter candidate evaluations, and Exhausted returns the last candidate
\* with converged = false rather than failing.  (Calls the constructor ended
\* with a ValueError are left aside here.)
C1_EndsWithResult ==
    (pc = "done" /\ outcome.kind # "ValueError")
        => /\ outcome.kind = "returned"
           /\ evals <= niter
           /\ outcome.converged = converged
           /\ outcome.tle = newtle

\* C2: the returned flag is true exactly when the residual of the returned
\* candidate is strictly within both tolerances; with niter = 1 the call
\* returns after exactly one evaluation, and a call returns converged at the
\* first residual that passes (i counts the iterations that did not).
C2_FlagIffResidualPasses ==
    outcome.kind = "returned"
        => /\ outcome.converged <=> ResidualPasses
           /\ outcome.tle = newtle
           /\ niter = 1 => evals = 1
           /\ outcome.converged => evals = i + 1
           /\ ~outcome.converged => (evals = i /\ i = niter)

\* C2 witness: niter = 1, the first residual passes the position tolerance
\* and fails the velocity tolerance, and the call returned converged = false
C2_Witness ==
    /\ outcome.kind = "returned" /\ niter = 1 /\ evals = 1
    /\ ~outcome.converged
    /\ NormBelow(VSub(refState[1], rsgp4), drmin)
    /\ ~NormBelow(VSub(refState[2], vsgp4), dvmin)

\* C3: a run in which the propagator returned a nonzero error code returns
\* no (TLE, converged) result.
C3_ErrorCodeAborts == errSeen => outcome.kind # "returned"

\* the target epoch as the epoch fields of a record hold it: 8 decimals
TargetEpochDoy ==
    LET p == RoundFrac(datetime_to_epoch(tnew)[2], 8)
    IN  Frac(p[1], p[2], Pow10(8))

HasEpoch(t, yr, doy) == t.epochyr = yr /\ t.epochdoy = doy

\* C8: every candidate, and so every returned record, has the epoch fields
\* of the target epoch to 8 decimals, and not the input record's own epoch
\* when the two differ.
C8_CandidateEpochIsTarget ==
    /\ newtle.ok
          => /\ HasEpoch(newtle, datetime_to_epoch(tnew)[1], TargetEpochDoy)
             /\ ~HasEpoch(tleAtCall, datetime_to_epoch(tnew)[1], TargetEpochDoy)
                   => ~HasEpoch(newtle, tleAtCall.epochyr, tleAtCall.epochdoy)
    /\ outcome.kind = "returned" => outcome.tle = newtle /\ newtle.ok

\* C8 witness: VANGUARD 3 propagated to 2020-02-23T01:02:04 returned after
\* two evaluations with day of year 54.04310185
C8_Witness ==
    /\ outcome.kind = "returned" /\ evals = 2
    /\ tleAtCall.name = VanguardName /\ tnew = VanguardTarget
    /\ outcome.tle.epochyr = 20
    /\ outcome.tle.epochdoy = Frac(54, 4310185, 100000000)

\* C9: the working state starts as the reference and is the reference plus
\* the sum of the residuals of the iterations that did not pass; the loop
\* never changes the reference.
C9_WorkingStateIsReferencePlusResiduals ==
    pc \in {"loop", "sgp4", "return", "done"}
        => /\ r0 = refState[1] /\ v0 = refState[2]
           /\ rnew = VAdd(refState[1], sumdr)
           /\ vnew = VAdd(refState[2], sumdv)
           /\ i = 0 => (rnew = r0 /\ vnew = v0)

\* C9 witness: two iterations did not pass and moved the working state
C9_Witness ==
    /\ pc = "loop" /\ i = 2
    /\ sumdr # ZeroVec /\ sumdv # ZeroVec
    /\ rnew # r0 /\ vnew # v0

CosmeticFields(t) ==
    <<t.satno, t.name, t.desig, t.classification, t.ndot, t.nddot, t.bstar,
      t.ephtype, t.elnum, t.revnum>>

InDataModel(p) ==
    /\ p.satno \in 0..99999 /\ p.epochyr \in 0..99
    /\ p.epochdoy.n >= 1 /\ p.epochdoy.n < 367
    /\ ~p.ecc.neg /\ p.ecc.ip = 0
    /\ ~p.incl.neg /\ (p.incl.ip < 180 \/ (p.incl.ip = 180 /\ p.incl.fp = 0))
    /\ \A a \in {p.node, p.argp, p.m} : ~a.neg /\ a.ip < 360
    /\ ~p.n.neg /\ (p.n.ip > 0 \/ p.n.fp > 0)
    /\ p.elnum \in 0..9999 /\ p.revnum \in 0..99999

\* the last character of a line is the checksum of the 68 before it
ChecksumHolds(line) ==
    line[Len(line)] = DigitChars[(CheckSum(line, 1, Len(line) - 1) % 10) + 1]

\* C5: for arguments in the ranges of the data model, line1 and line2 as
\* from_parameters formats them are 69 characters long and end in their
\* checksum digit.
C5_LinesAre69WithChecksum ==
    (locals.set /\ InDataModel(params))
        => /\ Len(locals.line1) = 69 /\ Len(locals.line2) = 69
           /\ ChecksumHolds(locals.line1) /\ ChecksumHolds(locals.line2)

\* floor(log10 |x|) of a nonzero drag value
Magnitude(x) == NumDigits(x.mant) - 1 + x.exp10

\* 1e-8 <= |x| <= 1e-2
InDragRange(x) ==
    /\ x.mant > 0
    /\ Magnitude(x) >= -8
    /\ Magnitude(x) < -2 \/ (Magnitude(x) = -2 /\ x.mant = Pow10(NumDigits(x.mant) - 1))

\* d is x to 5 significant digits: |x - d| <= half a unit of x's 5th digit
SameTo5Digits(x, d) ==
    LET L == Magnitude(x)
        lo == IF x.exp10 < L - 6 THEN x.exp10 ELSE L - 6
        X == x.mant * Pow10(x.exp10 - lo)
        D == d.mant * Pow10(d.exp10 - lo)
    IN  /\ d.mant > 0 /\ d.neg = x.neg /\ d.exp10 >= lo
        /\ Abs(X - D) <= 5 * Pow10(L - 5 - lo)

\* a field is 8 characters and the decoder reads the value back from it
FieldRoundTrips(x, field) ==
    /\ Len(field) = 8
    /\ LET d == DragValue(field[1], SubSeq(field, 2, 6), SubSeq(field, 7, 8))
       IN  /\ d.ok
           /\ IF x.mant = 0 THEN d.val.mant = 0 ELSE SameTo5Digits(x, d.val)

\* C6: for |x| in [1e-8, 1e-2] format_bstar_or_nddot(x) is an 8-character
\* field from which the decoder's rule gives x to 5 significant digits, and
\* 0 encodes to " 00000-0" and decodes to 0.
C6_DragFieldRoundTrips ==
    locals.set
        => \A f \in {<<params.bstar, locals.bstarstr>>,
                     <<params.nddot, locals.nddotstr>>} :
              /\ InDragRange(f[1]) => FieldRoundTrips(f[1], f[2])
              /\ f[1].mant = 0
                    => /\ f[2] = <<" ", "0", "0", "0", "0", "0", "-", "0">>
                       /\ FieldRoundTrips(f[1], f[2])

\* |a - b| <= 10^-digits for two decimals
DecWithin(a, b, digits) ==
    LET F == 9
        sa == IF a.neg THEN -1 ELSE 1
        sb == IF b.neg THEN -1 ELSE 1
        di == sa * a.ip - sb * b.ip
    IN  /\ Abs(di) <= 1
        /\ Abs(di * Pow10(F) + sa * a.fp * Pow10(F - a.fd)
                             - sb * b.fp * Pow10(F - b.fd)) <= Pow10(F - digits)

\* C7: for arguments in the ranges of the data model the record decoded
\* from the lines from_parameters formats has every field of the arguments:
\* integers and text exactly, eccentricity within 1e-7, angles within 1e-4,
\* mean motion within 1e-8, meanMotionDot with its sign.
C7_CodecRoundTrip ==
    ((made.ok \/ made.err # "NotMade") /\ InDataModel(params))
        => /\ made.ok
           /\ made.satno = params.satno
           /\ made.classification = params.classification
           /\ made.desig = params.desig
           /\ made.epochyr = params.epochyr
           /\ made.ephtype = params.ephtype
           /\ made.elnum = params.elnum
           /\ made.revnum = params.revnum
           /\ made.name = params.name
           /\ DecWithin(made.ecc, params.ecc, 7)
           /\ DecWithin(made.incl, params.incl, 4)
           /\ DecWithin(made.node, params.node, 4)
           /\ DecWithin(made.argp, params.argp, 4)
           /\ DecWithin(made.m, params.m, 4)
           /\ DecWithin(made.n, params.n, 8)
           /\ DecWithin(made.ndot, params.ndot, 8)
           /\ DecIsNeg(made.ndot) = DecIsNeg(params.ndot)

\* C4: for a valid calendar timestamp t of whole seconds with year in
\* [1957, 2056), epoch_to_datetime(datetime_to_epoch(t)) has the year,
\* month, day, hour, minute and second of t.
C4_EpochRoundTrip ==
    (back.ok \/ back.err # "NoStamp")
        => /\ back.ok
           /\ back.val.year = stamp.year /\ back.val.month = stamp.month
           /\ back.val.day = stamp.day /\ back.val.hour = stamp.hour
           /\ back.val.minute = stamp.minute /\ back.val.second = stamp.second

====
